---------------------------- MODULE Spec2Model ----------------------------
(***************************************************************************)
(* Model of decision_transformer/utils.py: discount_cumsum,                *)
(* evaluate_on_env and D4RLTrajectoryDataset (__init__, __getitem__).      *)
(*                                                                         *)
(* Real-valued quantities (returns-to-go, averages, normalised states) are *)
(* exact rationals [n, d] in lowest terms with d > 0; a store into an      *)
(* integer-dtype array truncates toward zero, as numpy does.               *)
(***************************************************************************)
EXTENDS Integers, Sequences, FiniteSets, TLC

(* ------------------------------ bounds -------------------------------- *)
MaxSteps == 4
MaxCtx == 3
MaxEp == 2
MaxLen == 3

RewardSet == {0, 1}
ScaleSet == {1, 2}
TargetSet == {3}
PolicySet == {0}
CumsumRewards == {0, 1, 2}
StoreSizes == {1, 2}
Shapes == {"ok", "no_observations", "no_actions", "no_rewards",
           "short_observations", "short_actions", "short_rewards"}

(* ------------------------------- state -------------------------------- *)
\* evaluate_on_env
VARIABLES
    pc,               \* "loop" (line 65), "step" (line 82), "done" (returned), "idle"
    context_len, max_test_ep_len, num_eval_ep, rtg_target, rtg_scale,
    state_mean, state_std,
    policy,           \* the model argument: which deterministic policy is evaluated
    ep,               \* episodes started so far
    t,                \* inner loop index
    total_reward, total_timesteps,
    actions, states, rewards_to_go,       \* the placeholders (row 0)
    running_state, running_reward, running_rtg,
    results,
    fwd,              \* the last model.forward call: its arguments and the buffers then
    act_preds, act,
    env               \* the environment as seen from outside: its call history

evalVars == <<pc, context_len, max_test_ep_len, num_eval_ep, rtg_target, rtg_scale,
              state_mean, state_std, policy, ep, t, total_reward, total_timesteps,
              actions, states, rewards_to_go, running_state, running_reward,
              running_rtg, results, fwd, act_preds, act, env>>

\* discount_cumsum
VARIABLES
    dc_pc,            \* "idle", "call", "returned", "raised"
    x, gamma,         \* the arguments: x is an array [dtype, data]
    disc_cumsum       \* the array returned

cumsumVars == <<dc_pc, x, gamma, disc_cumsum>>

\* D4RLTrajectoryDataset
VARIABLES
    ds_pc,            \* "idle", "new", "ready" (constructed), "raised"
    dataset_file,     \* what pickle.load returns: the list of trajectory records
    ds_args,          \* the constructor arguments
    self,             \* the dataset object
    item              \* the last __getitem__ call and what it returned

dataVars == <<ds_pc, dataset_file, ds_args, self, item>>

vars == <<evalVars, cumsumVars, dataVars>>

(* --------------------------- exact arithmetic ------------------------- *)
Abs(v) == IF v < 0 THEN -v ELSE v

Min(a, b) == IF a <= b THEN a ELSE b

RECURSIVE GCD(_, _)
GCD(a, b) == IF b = 0 THEN a ELSE GCD(b, a % b)

\* n / d in lowest terms, sign carried by the numerator (d # 0)
Frac(n, d) ==
    LET g == GCD(Abs(n), Abs(d))
        s == IF d < 0 THEN -1 ELSE 1
    IN  [n |-> (s * n) \div g, d |-> (s * d) \div g]

FromInt(i) == [n |-> i, d |-> 1]

RAdd(a, b) == Frac(a.n * b.d + b.n * a.d, a.d * b.d)

RSub(a, b) == Frac(a.n * b.d - b.n * a.d, a.d * b.d)

RMul(a, b) == Frac(a.n * b.n, a.d * b.d)

RDiv(a, b) == Frac(a.n * b.d, a.d * b.n)

\* torch.zeros / np.zeros: a sequence of n zeros
Zeros(n) == [i \in 1..n |-> FromInt(0)]

\* torch.arange(start, end): start, start+1, ..., end-1
Arange(start, end) == [i \in 1..(end - start) |-> start + i - 1]

\* Python slice s[lo:hi] for 0 <= lo: the upper end is clamped to the length
Slice(s, lo, hi) == SubSeq(s, lo + 1, Min(hi, Len(s)))

RECURSIVE SumSeq(_)
SumSeq(s) == IF s = <<>> THEN 0 ELSE s[1] + SumSeq(Tail(s))

\* the value an array of the given dtype keeps when v is stored into it: an
\* integer array drops the fraction (toward zero), a float array keeps v
Trunc(v) == IF v.n >= 0 THEN v.n \div v.d ELSE -((-v.n) \div v.d)

Store(dtype, v) == IF dtype = "int64" THEN FromInt(Trunc(v)) ELSE v

\* all sequences over S of length 0..n
SeqsUpTo(S, n) == UNION {[1..k -> S] : k \in 0..n}

(* ============================ discount_cumsum ========================== *)
NoArray == [dtype |-> "float64", data |-> <<>>]

\* for t in reversed(range(x.shape[0]-1)): disc_cumsum[t] = x[t] + gamma * disc_cumsum[t+1]
\* (tt is the 1-based index of the next element to write, 0 when the scan is over)
RECURSIVE ReverseScan(_, _, _, _)
ReverseScan(xs, g, tt, disc) ==
    IF tt < 1 THEN disc
    ELSE ReverseScan(xs, g, tt - 1,
            [disc EXCEPT !.data[tt] =
                Store(disc.dtype, RAdd(xs.data[tt], RMul(g, disc.data[tt + 1])))])

\* disc_cumsum = np.zeros_like(x); disc_cumsum[-1] = x[-1]; the scan; return
DiscountCumsum(xs, g) ==
    LET L == Len(xs.data)
        zeros_like == [dtype |-> xs.dtype, data |-> Zeros(L)]
    IN  ReverseScan(xs, g, L - 1, [zeros_like EXCEPT !.data[L] = xs.data[L]])

CumsumIdle ==
    /\ dc_pc = "idle" /\ x = NoArray /\ gamma = FromInt(1) /\ disc_cumsum = NoArray

CumsumInit ==
    /\ dc_pc = "call"
    /\ \E dtype \in {"int64", "float64"}, data \in SeqsUpTo(CumsumRewards, MaxLen) :
          x = [dtype |-> dtype, data |-> [i \in 1..Len(data) |-> FromInt(data[i])]]
    /\ gamma \in {FromInt(1), Frac(1, 2)}
    /\ disc_cumsum = NoArray

\* discount_cumsum(x, gamma) on a non-empty array
CumsumReturn ==
    /\ dc_pc = "call"
    /\ Len(x.data) > 0
    /\ disc_cumsum' = DiscountCumsum(x, gamma)
    /\ dc_pc' = "returned"
    /\ UNCHANGED <<x, gamma>>
    /\ UNCHANGED <<evalVars, dataVars>>

\* on an empty array x[-1] raises IndexError (line 14)
CumsumRaise ==
    /\ dc_pc = "call"
    /\ Len(x.data) = 0
    /\ dc_pc' = "raised"
    /\ UNCHANGED <<x, gamma, disc_cumsum>>
    /\ UNCHANGED <<evalVars, dataVars>>

(* ========================= D4RLTrajectoryDataset ======================= *)
NaN == [n |-> 0, d |-> 0]

NoSelf == [context_len |-> 0, discrete_action |-> FALSE, trajectories |-> <<>>,
           state_mean |-> NaN, state_var |-> NaN]

NoItem == [idx |-> -1]

\* a trajectory record of base length L: observation i is 100*k + i, action i is
\* 10*k + i, reward i is 1 or 2; one field may be absent or one step short
MakeRecord(shape, L, k) ==
    LET len(f) == IF shape = "short_" \o f THEN L - 1 ELSE L
    IN  [keys |-> {f \in {"observations", "actions", "rewards"} : shape # "no_" \o f},
         observations |-> [i \in 1..len("observations") |-> 100 * k + i],
         actions |-> [i \in 1..len("actions") |-> FromInt(10 * k + i)],
         rewards |-> [dtype |-> "float64",
                      data |-> [i \in 1..len("rewards") |-> FromInt(1 + (i % 2))]]]

Records(k) ==
    {MakeRecord(sh, L, k) : sh \in Shapes, L \in 1..MaxLen}
        \cup {MakeRecord("ok", 0, k)}

\* a record has the three fields, all of one length
WellFormedRecord(r) ==
    /\ r.keys = {"observations", "actions", "rewards"}
    /\ Len(r.actions) = Len(r.observations)
    /\ Len(r.rewards.data) = Len(r.observations)

RECURSIVE Concat(_)
Concat(ss) == IF ss = <<>> THEN <<>> ELSE ss[1] \o Concat(Tail(ss))

\* np.mean(states, axis=0): nan for no samples
Mean(xs) == IF Len(xs) = 0 THEN NaN ELSE Frac(SumSeq(xs), Len(xs))

\* the variance np.std takes the square root of
Variance(xs) ==
    IF Len(xs) = 0 THEN NaN
    ELSE LET m == Mean(xs)
             sq == [i \in 1..Len(xs) |-> (xs[i] * m.d - m.n) * (xs[i] * m.d - m.n)]
         IN  Frac(SumSeq(sq), Len(xs) * m.d * m.d)

\* (observation - state_mean) / state_std with state_std = sqrt(var) + 1e-6, kept
\* as the expression: the square root has no exact value here
Standardize(o, mean, var) == [obs |-> o, mean |-> mean, var |-> var]

\* the loop body of lines 139-144 raises KeyError for a record without
\* observations or rewards, and IndexError in discount_cumsum for empty rewards
InitRaises(r) ==
    \/ "observations" \notin r.keys
    \/ "rewards" \notin r.keys
    \/ Len(r.rewards.data) = 0

\* traj['returns_to_go'] = discount_cumsum(traj['rewards'], 1.0) / rtg_scale
ReturnsToGo(r, scale) ==
    LET g == DiscountCumsum(r.rewards, FromInt(1)).data
    IN  [i \in 1..Len(g) |-> RDiv(g[i], FromInt(scale))]

DataIdle ==
    /\ ds_pc = "idle" /\ dataset_file = <<>> /\ self = NoSelf /\ item = NoItem
    /\ ds_args = [context_len |-> 0, rtg_scale |-> 0, discrete_action |-> FALSE]

DataInit ==
    /\ ds_pc = "new"
    /\ \E n \in StoreSizes :
          dataset_file \in {f \in [1..n -> UNION {Records(k) : k \in 1..n}] :
                               \A k \in 1..n : f[k] \in Records(k)}
    /\ ds_args \in [context_len : 1..MaxCtx, rtg_scale : ScaleSet,
                    discrete_action : BOOLEAN]
    /\ self = NoSelf
    /\ item = NoItem

\* D4RLTrajectoryDataset(dataset_path, context_len, rtg_scale, discrete_action)
\* when no record makes the loop of lines 139-144 raise
Construct ==
    /\ ds_pc = "new"
    /\ \A k \in 1..Len(dataset_file) : ~InitRaises(dataset_file[k])
    /\ LET all == Concat([k \in 1..Len(dataset_file) |-> dataset_file[k].observations])
           mean == Mean(all)
           var == Variance(all)
       IN  self' = [context_len |-> ds_args.context_len,
                    discrete_action |-> ds_args.discrete_action,
                    state_mean |-> mean,
                    state_var |-> var,
                    trajectories |->
                       [k \in 1..Len(dataset_file) |->
                          LET r == dataset_file[k]
                          IN  [keys |-> r.keys \cup {"returns_to_go"},
                               observations |->
                                  [i \in 1..Len(r.observations) |->
                                      Standardize(r.observations[i], mean, var)],
                               actions |-> r.actions,
                               rewards |-> r.rewards,
                               returns_to_go |-> ReturnsToGo(r, ds_args.rtg_scale)]]]
    /\ ds_pc' = "ready"
    /\ UNCHANGED <<dataset_file, ds_args, item>>
    /\ UNCHANGED <<evalVars, cumsumVars>>

\* the constructor raises: no dataset object results
ConstructRaises ==
    /\ ds_pc = "new"
    /\ \E k \in 1..Len(dataset_file) : InitRaises(dataset_file[k])
    /\ ds_pc' = "raised"
    /\ UNCHANGED <<dataset_file, ds_args, self, item>>
    /\ UNCHANGED <<evalVars, cumsumVars>>

\* fault variant: the upper end taken as exclusive and compensated for
RandintHiExclusive(traj_len, ctx) == traj_len - ctx + 1

\* random.randint(0, traj_len - self.context_len): both ends included
RandintHi(traj_len, ctx) == traj_len - ctx

\* fault variant: one padding entry too few
PaddingLenShort(ctx, traj_len) == ctx - traj_len - 1

\* padding_len = self.context_len - traj_len
PaddingLen(ctx, traj_len) == ctx - traj_len

\* torch.ones(n, dtype=torch.long), torch.zeros(n, dtype=torch.long)
Ones(n) == [i \in 1..n |-> 1]

MaskZeros(n) == [i \in 1..n |-> 0]

\* actions.to(int32) if discrete_action else actions.to(float32)
CastActions(a, discrete) ==
    IF discrete THEN [i \in 1..Len(a) |-> FromInt(Trunc(a[i]))] ELSE a

\* __getitem__(idx), traj_len >= context_len, the offset drawn being si
GetItemSlice(idx, si) ==
    /\ ds_pc = "ready"
    /\ idx \in 0..(Len(self.trajectories) - 1)
    /\ LET traj == self.trajectories[idx + 1]
           traj_len == Len(traj.observations)
           ctx == self.context_len
       IN  /\ traj_len >= ctx
           /\ si \in 0..RandintHi(traj_len, ctx)
           /\ "actions" \in traj.keys
           /\ item' = [idx |-> idx, si |-> si, raised |-> FALSE,
                       timesteps |-> Arange(si, si + ctx),
                       states |-> Slice(traj.observations, si, si + ctx),
                       actions |-> CastActions(Slice(traj.actions, si, si + ctx),
                                               self.discrete_action),
                       returns_to_go |-> Slice(traj.returns_to_go, si, si + ctx),
                       traj_mask |-> Ones(ctx)]
    /\ UNCHANGED <<ds_pc, dataset_file, ds_args, self>>
    /\ UNCHANGED <<evalVars, cumsumVars>>

\* __getitem__(idx), traj_len < context_len: the whole trajectory, zero-padded
GetItemPad(idx) ==
    /\ ds_pc = "ready"
    /\ idx \in 0..(Len(self.trajectories) - 1)
    /\ LET traj == self.trajectories[idx + 1]
           traj_len == Len(traj.observations)
           ctx == self.context_len
           padding_len == PaddingLen(ctx, traj_len)
       IN  /\ traj_len < ctx
           /\ "actions" \in traj.keys
           /\ item' = [idx |-> idx, si |-> -1, raised |-> FALSE,
                       timesteps |-> Arange(0, ctx),
                       states |-> traj.observations \o Zeros(padding_len),
                       actions |-> CastActions(traj.actions \o Zeros(padding_len),
                                               self.discrete_action),
                       returns_to_go |-> traj.returns_to_go \o Zeros(padding_len),
                       traj_mask |-> Ones(traj_len) \o MaskZeros(padding_len)]
    /\ UNCHANGED <<ds_pc, dataset_file, ds_args, self>>
    /\ UNCHANGED <<evalVars, cumsumVars>>

\* __getitem__(idx) on a record without actions: traj['actions'] raises KeyError
GetItemRaises(idx) ==
    /\ ds_pc = "ready"
    /\ idx \in 0..(Len(self.trajectories) - 1)
    /\ "actions" \notin self.trajectories[idx + 1].keys
    /\ item' = [idx |-> idx, si |-> -1, raised |-> TRUE, timesteps |-> <<>>,
                states |-> <<>>, actions |-> <<>>, returns_to_go |-> <<>>,
                traj_mask |-> <<>>]
    /\ UNCHANGED <<ds_pc, dataset_file, ds_args, self>>
    /\ UNCHANGED <<evalVars, cumsumVars>>

GetItem ==
    \E idx \in 0..(Len(self.trajectories) - 1) :
        \/ \E si \in 0..MaxLen : GetItemSlice(idx, si)
        \/ GetItemPad(idx)
        \/ GetItemRaises(idx)

(* ---------- properties of discount_cumsum and the dataset ------------- *)

\* C7: for a non-empty x, discount_cumsum(x, gamma) returns g of the length of x
\* with g[L-1] = x[L-1] and g[t] = x[t] + gamma * g[t+1] for t < L-1, which for
\* gamma = 1 is g[t] = sum(x[t:]); an empty x is rejected, not answered. (That
\* x itself is left as it was is the UNCHANGED x of CumsumReturn.)
C7_DiscountRecurrence ==
    /\ Len(x.data) = 0 => dc_pc # "returned"
    /\ dc_pc = "returned" =>
          LET L == Len(x.data)
              g == disc_cumsum.data
          IN  /\ Len(g) = L
              /\ g[L] = x.data[L]
              /\ \A tt \in 1..(L - 1) :
                    g[tt] = RAdd(x.data[tt], RMul(gamma, g[tt + 1]))
              /\ gamma = FromInt(1) =>
                    \A tt \in 1..L :
                       g[tt] = FromInt(SumSeq([i \in 1..(L - tt + 1) |->
                                                  x.data[tt + i - 1].n]))

\* the trajectory the last __getitem__ call read, and that call having returned
ItemTraj == self.trajectories[item.idx + 1]

Returned == ds_pc = "ready" /\ item.idx >= 0 /\ ~item.raised

\* a trajectory of length L: the four sequences present and of one length
WellFormedTraj(tr) ==
    /\ {"observations", "actions", "rewards"} \subseteq tr.keys
    /\ Len(tr.actions) = Len(tr.observations)
    /\ Len(tr.rewards.data) = Len(tr.observations)
    /\ Len(tr.returns_to_go) = Len(tr.observations)

\* C6: the constructor fails whenever a record lacks observations, actions or
\* rewards or holds them in differing lengths, so that every trajectory of a
\* constructed store has its four sequences of one length.
C6_MalformedRecordRejected ==
    ds_pc = "ready" =>
        /\ \A k \in 1..Len(dataset_file) : WellFormedRecord(dataset_file[k])
        /\ \A k \in 1..Len(self.trajectories) : WellFormedTraj(self.trajectories[k])

\* C4: for a trajectory of length L >= 1 the window has context_len entries in
\* each of its five sequences; traj_mask is min(L, context_len) ones and then
\* zeros; when L < context_len the entries at index >= L of states, actions and
\* returns_to_go are zero and those before are the trajectory's.
C4_WindowShapeAndPadding ==
    (Returned /\ WellFormedTraj(ItemTraj) /\ Len(ItemTraj.observations) >= 1) =>
        LET tr == ItemTraj
            L == Len(tr.observations)
            ctx == self.context_len
        IN  /\ Len(item.timesteps) = ctx
            /\ Len(item.states) = ctx
            /\ Len(item.actions) = ctx
            /\ Len(item.returns_to_go) = ctx
            /\ Len(item.traj_mask) = ctx
            /\ item.traj_mask = [i \in 1..ctx |-> IF i <= Min(L, ctx) THEN 1 ELSE 0]
            /\ SumSeq(item.traj_mask) = Min(L, ctx)
            /\ L < ctx =>
                  \A i \in 1..ctx :
                     IF i > L
                     THEN /\ item.states[i] = FromInt(0)
                          /\ item.actions[i] = FromInt(0)
                          /\ item.returns_to_go[i] = FromInt(0)
                     ELSE /\ item.states[i] = tr.observations[i]
                          /\ item.actions[i] = tr.actions[i]
                          /\ item.returns_to_go[i] = tr.returns_to_go[i]

C4_Witness ==
    /\ Returned /\ WellFormedTraj(ItemTraj)
    /\ Len(ItemTraj.observations) = 2 /\ self.context_len = 3
    /\ item.traj_mask = <<1, 1, 0>>

\* C5: the timesteps of a window are context_len consecutive integers; when
\* L >= context_len they start at an offset si in 0..L-context_len, each such si
\* can be drawn, the entries at local index i are the trajectory's at si + i
\* (never past L-1; si = 0 when L = context_len); when L < context_len they are
\* 0 .. context_len-1.
C5_WindowOffsets ==
    /\ (Returned /\ WellFormedTraj(ItemTraj)) =>
          LET tr == ItemTraj
              L == Len(tr.observations)
              ctx == self.context_len
              ts == item.timesteps
          IN  /\ Len(ts) = ctx
              /\ \A i \in 1..(ctx - 1) : ts[i + 1] = ts[i] + 1
              /\ L < ctx => ts = Arange(0, ctx)
              /\ L >= ctx =>
                    /\ ts[1] = item.si
                    /\ 0 <= ts[1] /\ ts[1] <= L - ctx
                    /\ ts[ctx] <= L - 1
                    /\ L = ctx => ts[1] = 0
                    /\ Len(item.states) = ctx /\ Len(item.actions) = ctx
                    /\ Len(item.returns_to_go) = ctx
                    /\ \A i \in 1..ctx :
                          /\ item.states[i] = tr.observations[ts[1] + i]
                          /\ item.actions[i] = tr.actions[ts[1] + i]
                          /\ item.returns_to_go[i] = tr.returns_to_go[ts[1] + i]
    /\ ds_pc = "ready" =>
          \A idx \in 0..(Len(self.trajectories) - 1) :
             LET tr == self.trajectories[idx + 1]
             IN  WellFormedTraj(tr) =>
                    \A si \in 0..(Len(tr.observations) - self.context_len) :
                       ENABLED GetItemSlice(idx, si)

C5_Witness ==
    /\ Returned /\ WellFormedTraj(ItemTraj)
    /\ Len(ItemTraj.observations) = 3 /\ self.context_len = 2
    /\ item.si = 1 /\ item.timesteps = <<1, 2>>

(* ============================ evaluate_on_env ========================== *)
NoFwd == [t |-> -1]

NoResults == [avg_score |-> FromInt(0), avg_ep_len |-> FromInt(0)]

\* The environment as the evaluator drives it: number of step calls and sum of
\* their rewards over the run, the last call, whether the last step reported
\* terminated or truncated, whether a step was ever issued after such a report
\* without a reset in between, the rewards and actions of the steps since the
\* last reset, and how the episode just finished ended (cleared by the next reset).
EnvInit == [steps |-> 0, reward_sum |-> 0, last_call |-> "none", last_done |-> FALSE,
            step_after_done |-> FALSE, ep_rewards |-> <<>>, ep_actions |-> <<>>,
            ended |-> [kind |-> "NONE", steps |-> 0, flagged |-> FALSE]]

\* env.reset()
EnvReset(e) == [e EXCEPT !.last_call = "reset", !.last_done = FALSE,
                         !.ep_rewards = <<>>, !.ep_actions = <<>>,
                         !.ended = EnvInit.ended]

\* env.step(a) returning reward r and the two flags
EnvStep(e, a, r, terminated, truncated) ==
    [e EXCEPT !.steps = @ + 1, !.reward_sum = @ + r, !.last_call = "step",
              !.step_after_done = @ \/ e.last_done,
              !.last_done = terminated \/ truncated,
              !.ep_rewards = Append(@, r), !.ep_actions = Append(@, a)]

\* the observation reset() and step() return: this environment shows 1 after a
\* reset and then alternates 2, 1, 2, ... with the steps taken since
EnvObs(e) == 1 + (Len(e.ep_rewards) % 2)

\* fault variant: the last reward of the previous episode is kept
StaleRunningReward == running_reward

\* running_reward = 0
InitRunningReward == 0

\* timesteps = torch.arange(start=0, end=max_test_ep_len, step=1)
Timesteps(max) == Arange(0, max)

\* fault variant: the placeholder is allocated once and reused by later episodes
NewActionsStale(max) == IF Len(actions) = max THEN actions ELSE [i \in 1..max |-> 0]

\* torch.zeros((1, max_test_ep_len, act_dim)): the actions placeholder
NewActions(max) == [i \in 1..max |-> 0]

\* torch.zeros((1, max_test_ep_len, state_dim)) and torch.zeros((1, max_test_ep_len, 1))
NewBuffer(max) == Zeros(max)

\* running_rtg = rtg_target / rtg_scale
InitRtg(target, scale) == RDiv(FromInt(target), FromInt(scale))

\* running_rtg = running_rtg - (running_reward / rtg_scale)
NextRtg(rtg, reward, scale) == RSub(rtg, RDiv(FromInt(reward), FromInt(scale)))

\* states[0, t] = (running_state - state_mean) / state_std
Normalize(s, mean, std) == RDiv(RSub(FromInt(s), FromInt(mean)), FromInt(std))

\* the slice bounds of the four model.forward arguments, by branch
WindowLo(tt, ctx) == IF tt < ctx THEN 0 ELSE tt - ctx + 1

WindowHi(tt, ctx) == IF tt < ctx THEN ctx ELSE tt + 1

\* fault variant: the last prediction is read in both branches
ActIndexLast(tt, ctx, w) == w

\* act_preds[0, t] when t < context_len, act_preds[0, -1] otherwise (1-based here;
\* w is the window length the policy was given)
ActIndex(tt, ctx, w) == IF tt < ctx THEN tt + 1 ELSE w

\* model.forward in eval mode under no_grad: a deterministic function of its
\* inputs returning one action prediction per window position. Policy k predicts
\* 1 or 2 from the parity of the timestep it is shown at that position.
Forward(k, ts, st, ac, rtg) == [i \in 1..Len(ts) |-> 1 + ((ts[i] + k) % 2)]

\* fault variant: truncation does not end the episode
LoopExitTerminatedOnly(terminated, truncated) == terminated

\* if terminated or truncated: break
LoopExit(terminated, truncated) == terminated \/ truncated

\* fault variant: the episode length is averaged from the reward total
EvalResultsSwapped(tr, tt, num) == [avg_score |-> Frac(tr, num), avg_ep_len |-> Frac(tr, num)]

\* results['eval/avg_score'], results['eval/avg_ep_len']
EvalResults(tr, tt, num) == [avg_score |-> Frac(tr, num), avg_ep_len |-> Frac(tt, num)]

EvalIdle ==
    /\ pc = "idle"
    /\ context_len = 0 /\ max_test_ep_len = 0 /\ num_eval_ep = 0
    /\ rtg_target = 0 /\ rtg_scale = 0 /\ state_mean = 0 /\ state_std = 0
    /\ policy = 0 /\ ep = 0 /\ t = 0 /\ total_reward = 0 /\ total_timesteps = 0
    /\ actions = <<>> /\ states = <<>> /\ rewards_to_go = <<>>
    /\ running_state = 0 /\ running_reward = 0 /\ running_rtg = FromInt(0)
    /\ results = NoResults /\ fwd = NoFwd /\ act_preds = <<>> /\ act = 0
    /\ env = EnvInit

\* evaluate_on_env entered: arguments bound, lines 34-62 executed; state_mean and
\* state_std are the defaults taken for None (zeros and ones, lines 47-55)
EvalInit ==
    /\ pc = "loop"
    /\ context_len \in 1..MaxCtx
    /\ max_test_ep_len \in 1..MaxSteps
    /\ num_eval_ep \in 1..MaxEp
    /\ rtg_target \in TargetSet
    /\ rtg_scale \in ScaleSet
    /\ state_mean = 0 /\ state_std = 1
    /\ policy \in PolicySet
    /\ ep = 0 /\ t = 0
    /\ total_reward = 0 /\ total_timesteps = 0
    /\ actions = <<>> /\ states = <<>> /\ rewards_to_go = <<>>
    /\ running_state = 0 /\ running_reward = 0 /\ running_rtg = FromInt(0)
    /\ results = NoResults /\ fwd = NoFwd /\ act_preds = <<>> /\ act = 0
    /\ env = EnvInit

\* one pass of `for _ in range(num_eval_ep)` up to the inner loop (lines 65-80):
\* fresh placeholders, env.reset(), running_reward and running_rtg set anew
\* (max_test_ep_len >= 1 here, so the inner loop is entered)
BeginEpisode ==
    /\ pc = "loop"
    /\ ep < num_eval_ep
    /\ \E env1 \in {EnvReset(env)} :
         /\ running_state' = EnvObs(env1)
         /\ actions' = NewActions(max_test_ep_len)
         /\ states' = NewBuffer(max_test_ep_len)
         /\ rewards_to_go' = NewBuffer(max_test_ep_len)
         /\ running_reward' = InitRunningReward
         /\ running_rtg' = InitRtg(rtg_target, rtg_scale)
         /\ env' = env1
         /\ ep' = ep + 1
         /\ t' = 0
         /\ pc' = "step"
    /\ UNCHANGED <<context_len, max_test_ep_len, num_eval_ep, rtg_target, rtg_scale,
                   state_mean, state_std, policy, total_reward, total_timesteps,
                   results, fwd, act_preds, act>>
    /\ UNCHANGED <<cumsumVars, dataVars>>

\* one iteration of `for t in range(max_test_ep_len)` (lines 82-118); each
\* intermediate value is bound once, in the order the code computes it
Step ==
    /\ pc = "step"
    /\ \E r \in RewardSet, terminated \in BOOLEAN, truncated \in BOOLEAN :
       \E states1 \in {[states EXCEPT ![t + 1] =
                            Normalize(running_state, state_mean, state_std)]} :
       \E rtg1 \in {NextRtg(running_rtg, running_reward, rtg_scale)} :
       \E rtgbuf1 \in {[rewards_to_go EXCEPT ![t + 1] = rtg1]} :
       \E lo \in {WindowLo(t, context_len)}, hi \in {WindowHi(t, context_len)} :
       \E call \in {[t |-> t, lo |-> lo, hi |-> hi,
                      pos |-> Slice(Arange(0, Len(states1)), lo, hi),
                      timesteps |-> Slice(Timesteps(max_test_ep_len), lo, hi),
                      states |-> Slice(states1, lo, hi),
                      actions |-> Slice(actions, lo, hi),
                      rewards_to_go |-> Slice(rtgbuf1, lo, hi),
                      buf_states |-> states1, buf_actions |-> actions,
                      buf_rtg |-> rtgbuf1]} :
       \E preds \in {Forward(policy, call.timesteps, call.states, call.actions,
                              call.rewards_to_go)} :
       \E a \in {preds[ActIndex(t, context_len, Len(preds))]} :
       \E env1 \in {EnvStep(env, a, r, terminated, truncated)} :
         LET brk == LoopExit(terminated, truncated)
             last == (t + 1 >= max_test_ep_len)
         IN  /\ total_timesteps' = total_timesteps + 1
             /\ states' = states1
             /\ running_rtg' = rtg1
             /\ rewards_to_go' = rtgbuf1
             /\ fwd' = call
             /\ act_preds' = preds
             /\ act' = a
             /\ running_state' = EnvObs(env1)
             /\ running_reward' = r
             /\ actions' = [actions EXCEPT ![t + 1] = a]
             /\ total_reward' = total_reward + r
             /\ env' = IF brk \/ last
                       THEN [env1 EXCEPT !.ended =
                               [kind |-> IF brk
                                         THEN (IF terminated THEN "TERMINATED"
                                                             ELSE "TRUNCATED")
                                         ELSE "TIMED_OUT",
                                steps |-> Len(env1.ep_rewards),
                                flagged |-> env1.last_done]]
                       ELSE env1
             /\ pc' = IF brk \/ last THEN "loop" ELSE "step"
             /\ t' = IF brk \/ last THEN t ELSE t + 1
    /\ UNCHANGED <<context_len, max_test_ep_len, num_eval_ep, rtg_target, rtg_scale,
                   state_mean, state_std, policy, ep, results>>
    /\ UNCHANGED <<cumsumVars, dataVars>>

\* the outer loop is exhausted: lines 120-123
Finish ==
    /\ pc = "loop"
    /\ ep = num_eval_ep
    /\ results' = EvalResults(total_reward, total_timesteps, num_eval_ep)
    /\ pc' = "done"
    /\ UNCHANGED <<context_len, max_test_ep_len, num_eval_ep, rtg_target, rtg_scale,
                   state_mean, state_std, policy, ep, t, total_reward, total_timesteps,
                   actions, states, rewards_to_go, running_state, running_reward,
                   running_rtg, fwd, act_preds, act, env>>
    /\ UNCHANGED <<cumsumVars, dataVars>>

(* ------------------- properties of evaluate_on_env -------------------- *)

\* a state reached right after an iteration of the inner loop
AfterStep == env.last_call = "step" /\ fwd.t >= 0

\* C1: when evaluate_on_env returns (num_eval_ep >= 1), avg_ep_len * num_eval_ep
\* is the number of env.step calls made and avg_score * num_eval_ep is the sum of
\* the rewards those calls returned; a single episode that the environment
\* terminates after exactly 4 steps of reward 1 gives avg_ep_len = 4, avg_score = 4.
C1_AveragesMatchEnvCalls ==
    pc = "done" =>
        /\ RMul(results.avg_ep_len, FromInt(num_eval_ep)) = FromInt(env.steps)
        /\ RMul(results.avg_score, FromInt(num_eval_ep)) = FromInt(env.reward_sum)
        /\ (num_eval_ep = 1 /\ env.ep_rewards = <<1, 1, 1, 1>> /\ env.ended.flagged)
              => (results.avg_ep_len = FromInt(4) /\ results.avg_score = FromInt(4))

C1_Witness ==
    /\ pc = "done" /\ num_eval_ep = 1
    /\ env.ep_rewards = <<1, 1, 1, 1>> /\ env.ended.kind = "TERMINATED"
    /\ results.avg_ep_len = FromInt(4)

\* C2: no step is issued after a step reported terminated or truncated until the
\* next reset; an episode takes at most max_test_ep_len steps; it ends in exactly
\* one of TERMINATED, TRUNCATED, TIMED_OUT; an episode in which no step reported
\* terminated or truncated takes exactly max_test_ep_len steps and is TIMED_OUT.
C2_EpisodeEnds ==
    /\ ~env.step_after_done
    /\ Len(env.ep_rewards) <= max_test_ep_len
    /\ (pc = "step") => (~env.last_done /\ env.ended.kind = "NONE")
    /\ (pc \in {"loop", "done"} /\ ep > 0) =>
          /\ env.ended.kind \in {"TERMINATED", "TRUNCATED", "TIMED_OUT"}
          /\ env.ended.steps = Len(env.ep_rewards)
          /\ env.ended.steps >= 1
          /\ env.ended.flagged <=> env.ended.kind \in {"TERMINATED", "TRUNCATED"}
          /\ ~env.ended.flagged =>
                (env.ended.steps = max_test_ep_len /\ env.ended.kind = "TIMED_OUT")

C2_Witness ==
    /\ pc = "loop" /\ ep = 2 /\ max_test_ep_len >= 3
    /\ env.ended.kind = "TIMED_OUT" /\ env.ended.steps = max_test_ep_len
    /\ total_timesteps < 2 * max_test_ep_len

\* C3: in every episode the return-to-go written at buffer position p is
\* (rtg_target - sum of the rewards of steps 0..p-1 of that episode) / rtg_scale,
\* hence rtg_target / rtg_scale at p = 0 whatever earlier episodes returned.
C3_ReturnToGo ==
    \A p \in 0..(Len(env.ep_rewards) - 1) :
        /\ rewards_to_go[p + 1] =
              Frac(rtg_target - SumSeq(SubSeq(env.ep_rewards, 1, p)), rtg_scale)
        /\ p = 0 => rewards_to_go[1] = Frac(rtg_target, rtg_scale)

C3_Witness ==
    /\ ep = 2 /\ rtg_scale = 2 /\ AfterStep
    /\ Len(env.ep_rewards) = 3 /\ env.ep_rewards[1] = 1 /\ env.ep_rewards[2] = 0
    /\ total_reward = 3

\* the positions the claim C8 names for step tt
ClaimedWindow(tt, ctx) ==
    IF tt < ctx THEN Arange(0, ctx) ELSE Arange(tt - ctx + 1, tt + 1)

\* C8: at every step the four sequences passed to the policy each cover exactly
\* context_len buffer positions, [0, context_len) when t < context_len and
\* [t-context_len+1, t+1) otherwise, also when max_test_ep_len < context_len.
C8_WindowHasContextLen ==
    fwd.t >= 0 =>
        /\ fwd.pos = ClaimedWindow(fwd.t, context_len)
        /\ Len(fwd.timesteps) = context_len
        /\ Len(fwd.states) = context_len
        /\ Len(fwd.actions) = context_len
        /\ Len(fwd.rewards_to_go) = context_len

\* C9: the window passed to the policy contains buffer position t; the action
\* executed and written to actions[t] is the prediction at the window index that
\* holds position t (index t when t < context_len, else the last index), and the
\* timestep shown at that index is t.
C9_ActionReadAtCurrentPosition ==
    AfterStep =>
        /\ \E i \in 1..Len(fwd.pos) : fwd.pos[i] = fwd.t
        /\ \A i \in 1..Len(fwd.pos) :
              fwd.pos[i] = fwd.t => (act = act_preds[i] /\ fwd.timesteps[i] = fwd.t)
        /\ Len(act_preds) = Len(fwd.pos)
        /\ fwd.t < context_len => fwd.pos[fwd.t + 1] = fwd.t
        /\ fwd.t >= context_len => fwd.pos[Len(fwd.pos)] = fwd.t
        /\ actions[fwd.t + 1] = act
        /\ env.ep_actions[Len(env.ep_actions)] = act

C9_Witness ==
    /\ AfterStep /\ fwd.t = 1 /\ Len(fwd.pos) = 3 /\ act = act_preds[2]
    /\ act_preds[3] # act

\* what C10 says of the buffers at the policy invocation of step t
BufferMeaningful ==
    /\ \A p \in 0..(Len(fwd.buf_states) - 1) :
          /\ p > fwd.t => (fwd.buf_states[p + 1] = FromInt(0)
                            /\ fwd.buf_rtg[p + 1] = FromInt(0))
          /\ p >= fwd.t => fwd.buf_actions[p + 1] = 0
          /\ p < fwd.t => fwd.buf_actions[p + 1] = env.ep_actions[p + 1]
    /\ \A i \in 1..Len(fwd.pos) :
          /\ fwd.states[i] = fwd.buf_states[fwd.pos[i] + 1]
          /\ fwd.actions[i] = fwd.buf_actions[fwd.pos[i] + 1]
          /\ fwd.rewards_to_go[i] = fwd.buf_rtg[fwd.pos[i] + 1]

\* C10 as claimed: at every policy invocation at step t states and returns-to-go
\* beyond t and actions from t on are zero, actions before t are the executed
\* ones, and no buffer position beyond t is passed to the policy.
C10_NothingBeyondTPassed ==
    AfterStep =>
        /\ BufferMeaningful
        /\ \A i \in 1..Len(fwd.pos) : fwd.pos[i] <= fwd.t

\* C10 as amended: the same, except that positions beyond t are passed only
\* when t < context_len - 1 (positions t+1 .. context_len-1, as far as the buffer
\* reaches), and everything passed from them is zero.
C10_BeyondTOnlyZeros ==
    AfterStep =>
        /\ BufferMeaningful
        /\ \A i \in 1..Len(fwd.pos) :
              fwd.pos[i] > fwd.t =>
                 /\ fwd.pos[i] < context_len
                 /\ fwd.states[i] = FromInt(0)
                 /\ fwd.actions[i] = 0
                 /\ fwd.rewards_to_go[i] = FromInt(0)
        /\ fwd.t >= context_len - 1 => \A i \in 1..Len(fwd.pos) : fwd.pos[i] <= fwd.t

C10_Witness ==
    /\ AfterStep /\ ep = 2 /\ fwd.t = 1 /\ Len(fwd.pos) = 3
    /\ fwd.pos[3] = 2 /\ fwd.actions[1] # 0

\* evaluate_on_env
Init == EvalInit /\ CumsumIdle /\ DataIdle

Next == BeginEpisode \/ Step \/ Finish

Spec == Init /\ [][Next]_vars

\* discount_cumsum
InitCumsum == CumsumInit /\ EvalIdle /\ DataIdle

NextCumsum == CumsumReturn \/ CumsumRaise

SpecCumsum == InitCumsum /\ [][NextCumsum]_vars

\* D4RLTrajectoryDataset
InitDataset == DataInit /\ EvalIdle /\ CumsumIdle

NextDataset == Construct \/ ConstructRaises \/ GetItem

SpecDataset == InitDataset /\ [][NextDataset]_vars
==========================================================================
